---------------------------- MODULE Spec2Model ----------------------------
(***************************************************************************)
(* One call session of the Twilio <-> OpenAI Realtime audio bridge, in the *)
(* four variants the repository holds:                                     *)
(*                                                                         *)
(*   "CommitGuard"  src/unnamed/part_002  (safe buffering, 120 ms guard)   *)
(*   "Buffered"     src/unnamed/part_000  (pending queue, haveUncommitted) *)
(*   "Direct"       src/server.js         (no upstream readiness check)    *)
(*   "G711"         src/unnamed/part_001  (lines 184-369, no transcoder)   *)
(*                                                                         *)
(* A session is the closure created by wss.on("connection").  Its state is *)
(* the closure's variables, the readyState of the two sockets, the bytes   *)
(* in flight inside the two ffmpeg transcoders, and the messages handed to *)
(* the two sockets.  Every event-listener of the source is one action.     *)
(*                                                                         *)
(* Library behaviour the handlers rest on (ws 7+/8, Node streams):         *)
(*   - ws.send throws while readyState is CONNECTING and silently drops    *)
(*     the message while it is CLOSING or CLOSED;                          *)
(*   - ws.close on a CONNECTING client aborts the handshake: readyState    *)
(*     becomes CLOSING, then 'error' and 'close' are emitted together;     *)
(*   - a socket error on an OPEN socket sets CLOSING and emits 'error';    *)
(*     'close' follows later; a closing socket is closed after at most     *)
(*     the close timeout;                                                  *)
(*   - stream.write after stream.end emits an 'error' event on the stream; *)
(*     no listener is registered, so the exception is uncaught and the     *)
(*     process exits, as it does for an exception thrown in a listener.    *)
(***************************************************************************)
EXTENDS Integers, Sequences, FiniteSets, TLC

(***************************************************************************)
(* Bounds of the model.                                                    *)
(***************************************************************************)
\* messages received in one session from the two legs together (downstream
\* media frames and upstream events)
MaxMessages == 3
\* media frames received from Twilio in one session of the g711 bridge
MaxG711Frames == 5
\* upstream events received in one session of the g711 bridge
MaxG711Events == 1
\* clock ticks of ClockStepMs each
MaxTicks == 4
\* milliseconds per tick of the model's clock
ClockStepMs == 500
\* the same for a session of the g711 bridge, whose timer runs 250 ms
G711ClockStepMs == 125
\* messages the handlers have no use for (malformed, or of another type),
\* received in one session from the two legs together
MaxIgnored == 2

(***************************************************************************)
(* Program constants.                                                      *)
(***************************************************************************)
PCM_BYTES_PER_MS == 32
MIN_COMMIT_MS == 120
MIN_COMMIT_BYTES == PCM_BYTES_PER_MS * MIN_COMMIT_MS
\* "Append roughly every 200ms of PCM"
APPEND_EVERY_MS == 200
\* "Try a commit roughly every ~900ms"
COMMIT_EVERY_MS == 900
\* g711: "Track ~20ms per media frame"
FRAME_MS == 20
\* g711: "Commit when we have >=100ms buffered"
G711_COMMIT_MS == 100
\* g711: "commit after 250ms of inactivity"
COMMIT_TIMER_MS == 250

Variants == {"CommitGuard", "Buffered", "Direct", "G711"}
Transcoded == {"CommitGuard", "Buffered", "Direct"}

\* streamSid values a start event may carry; NoSid is the initial null
StreamSids == {"CA123"}
NoSid == "null"
\* durations (ms) of the audio one media payload may carry; only part_002
\* reads the length of a payload
FrameDurations(v) == IF v = "CommitGuard" THEN {20, 120} ELSE {20}

VARIABLES
  variant,          \* which source file's bridge this session runs
  now,              \* Date.now(), ms since the session was created
  fault,            \* "none", or the uncaught exception that ended the process
  streamSid,
  oaState,          \* oaWS.readyState / openaiWs.readyState
  oaAborted,        \* ws: handshake aborted by close() while CONNECTING
  twState,          \* twilioWS.readyState
  oaSent,           \* calls of oaWS.send, in order, with readyState at the call
  twSent,           \* calls of twilioWS.send, in order
  inTransEnded,     \* inTrans.stdin.end() was called
  outTransEnded,    \* outTrans.stdin.end() was called
  inPipe,           \* frames written to inTrans.stdin, not yet on its stdout
  outPipe,          \* audio written to outTrans.stdin, not yet on its stdout
  frameBuf,         \* frameBuf (part_002), chunkBuf (part_000), buf (server.js)
  lastFlushTs,      \* lastFlushTs (part_002), lastFlush (part_000), lastCommit
  appendTs,         \* part_002: times the data handler called appendToOpenAI
  oaReady,
  queuedBase64,
  bytesSinceCommit,
  haveUncommitted,
  bufferedFrames,
  commitTimer,
  lastMediaTs,      \* part_001: time the latest media message was received
  tonePending,      \* playTestTone spawned, its output not yet delivered
  nFrames,          \* media messages received so far
  nDeltas,          \* upstream audio deltas received so far
  nOther,           \* other upstream events received so far
  oaOpened,         \* the upstream 'open' event was delivered
  stopSeen,         \* a stop/close/error event has been delivered
  nBadTw,           \* downstream messages received that did not parse
  nBadOa            \* upstream messages received that the handler ignores

sockVars  == <<oaState, oaAborted, twState>>
transVars == <<inTransEnded, outTransEnded>>
inVars    == <<inPipe, frameBuf, lastFlushTs, appendTs>>
bufVars   == <<oaReady, queuedBase64, bytesSinceCommit, haveUncommitted>>
g711Vars  == <<bufferedFrames, commitTimer, lastMediaTs>>
ghostVars == <<nOther, oaOpened, stopSeen>>
noiseVars == <<nBadTw, nBadOa>>

vars == <<variant, now, fault, streamSid, oaState, oaAborted, twState, oaSent,
          twSent, inTransEnded, outTransEnded, inPipe, outPipe, frameBuf,
          lastFlushTs, oaReady, queuedBase64, bytesSinceCommit,
          haveUncommitted, bufferedFrames, commitTimer, tonePending, nFrames,
          nDeltas, nOther, oaOpened, stopSeen,
          nBadTw, nBadOa, appendTs, lastMediaTs>>

(***************************************************************************)
(* Data.                                                                   *)
(***************************************************************************)
RECURSIVE SumMs(_)
SumMs(chunk) ==
  IF chunk = <<>> THEN 0 ELSE Head(chunk).ms + SumMs(Tail(chunk))

\* Buffer.length of a PCM16 16 kHz chunk holding the given frames
PcmLength(chunk) == PCM_BYTES_PER_MS * SumMs(chunk)

\* chunk.toString("base64"): the string stands for the bytes it encodes
ToBase64(chunk) == [b64 |-> chunk]
\* Buffer.from(s, "base64")
FromBase64(s) == s.b64

NoTimer == [set |-> FALSE, due |-> 0, cleared |-> FALSE]

\* JSON messages handed to the upstream socket
OaMsg(type, audio, rs) == [type |-> type, audio |-> audio, rs |-> rs]
\* JSON messages handed to the downstream socket
TwMsg(event, sid, payload, rs) ==
  [event |-> event, streamSid |-> sid, payload |-> payload, rs |-> rs]

(***************************************************************************)
(* Initial state: the closure right after wss.on("connection") returns.    *)
(***************************************************************************)
InitFor(v) ==
  /\ variant = v
  /\ now = 0
  /\ fault = "none"
  /\ streamSid = NoSid
  /\ oaState = "CONNECTING"
  /\ oaAborted = FALSE
  /\ twState = "OPEN"
  /\ oaSent = <<>>
  /\ twSent = <<>>
  /\ inTransEnded = FALSE
  /\ outTransEnded = FALSE
  /\ inPipe = <<>>
  /\ outPipe = <<>>
  /\ frameBuf = <<>>
  /\ appendTs = <<>>
  /\ lastFlushTs = 0
  /\ oaReady = FALSE
  /\ queuedBase64 = <<>>
  /\ bytesSinceCommit = 0
  /\ haveUncommitted = FALSE
  /\ bufferedFrames = 0
  /\ commitTimer = NoTimer
  /\ lastMediaTs = 0
  /\ tonePending = FALSE
  /\ nFrames = 0
  /\ nDeltas = 0
  /\ nOther = 0
  /\ oaOpened = FALSE
  /\ stopSeen = FALSE
  /\ nBadTw = 0
  /\ nBadOa = 0

Init == \E v \in Variants : InitFor(v)

(***************************************************************************)
(* The ws library and the Node process.                                    *)
(***************************************************************************)
\* readyState after ws.close(): a no-op on a closing or closed socket
WsClose(rs) == IF rs \in {"CONNECTING", "OPEN"} THEN "CLOSING" ELSE rs

\* An uncaught exception ends the process: the operating system closes both
\* sockets and both transcoder pipes, and no handler runs any more.
ProcessExit(reason) ==
  /\ fault' = reason
  /\ oaState' = "CLOSED"
  /\ twState' = "CLOSED"
  /\ inTransEnded' = TRUE
  /\ outTransEnded' = TRUE
  /\ UNCHANGED oaAborted

Running == fault = "none"

\* a faulty cleanup: every run also tells Twilio to stop
cleanup_SendsStop(oa, tw) ==
  /\ inTransEnded' = TRUE
  /\ outTransEnded' = TRUE
  /\ oaState' = WsClose(oa)
  /\ oaAborted' = (oaAborted \/ oa = "CONNECTING")
  /\ twState' = WsClose(tw)
  /\ stopSeen' = TRUE
  /\ twSent' = Append(twSent, [event |-> "stop", streamSid |-> streamSid,
                               payload |-> <<>>, rs |-> tw])

\* a faulty cleanup: the downstream socket is not closed
cleanup_KeepsDownstream(oa, tw) ==
  /\ inTransEnded' = TRUE
  /\ outTransEnded' = TRUE
  /\ oaState' = WsClose(oa)
  /\ oaAborted' = (oaAborted \/ oa = "CONNECTING")
  /\ twState' = tw
  /\ stopSeen' = TRUE
  /\ UNCHANGED twSent

(***************************************************************************)
(* cleanup (identical in part_002:231-236, part_000:255-260 and            *)
(* server.js:210-215), called with the readyStates the sockets have when   *)
(* the handler runs.                                                       *)
(***************************************************************************)
cleanup(oa, tw) ==
  /\ inTransEnded' = TRUE
  /\ outTransEnded' = TRUE
  /\ oaState' = WsClose(oa)
  /\ oaAborted' = (oaAborted \/ oa = "CONNECTING")
  /\ twState' = WsClose(tw)
  /\ stopSeen' = TRUE
  /\ UNCHANGED twSent

(***************************************************************************)
(* The inbound path of the transcoded variants, as functions of the        *)
(* closure state s = [rs, oaReady, queuedBase64, bytesSinceCommit,         *)
(* haveUncommitted, oaSent, frameBuf, lastFlushTs, appendTs, threw].       *)
(***************************************************************************)
InState ==
  [rs |-> oaState, oaReady |-> oaReady, queuedBase64 |-> queuedBase64,
   bytesSinceCommit |-> bytesSinceCommit, haveUncommitted |-> haveUncommitted,
   oaSent |-> oaSent, frameBuf |-> frameBuf, lastFlushTs |-> lastFlushTs,
   appendTs |-> appendTs, threw |-> FALSE]

NoAudio == ToBase64(<<>>)

\* oaWS.send(JSON.stringify(...)) from inside a handler
OaSend(s, type, audio) ==
  IF s.rs = "CONNECTING"
  THEN [s EXCEPT !.oaSent = Append(@, OaMsg(type, audio, s.rs)), !.threw = TRUE]
  ELSE [s EXCEPT !.oaSent = Append(@, OaMsg(type, audio, s.rs))]

RECURSIVE OaSendAll(_, _)
\* while (queuedBase64.length) { send(queuedBase64.shift()) }
OaSendAll(s, q) ==
  IF q = <<>> THEN [s EXCEPT !.queuedBase64 = <<>>]
  ELSE OaSendAll(OaSend(s, "input_audio_buffer.append", Head(q)), Tail(q))

\* the guard of appendToOpenAI and flushIfReady
UpstreamReady(s) == s.oaReady /\ s.rs = "OPEN"

\* a faulty commit condition: any non-empty window is committed
ShouldCommit_AnyBytes(bytes, force) == bytes > 0

\* part_002: the commit condition of flushIfReady
ShouldCommit(bytes, force) ==
  (bytes >= MIN_COMMIT_BYTES) \/ (force /\ bytes > 0)

\* part_002 appendToOpenAI
Guard_appendToOpenAI(s, base64Chunk) ==
  LET pcmBytes == PcmLength(FromBase64(base64Chunk))
      s1 == [s EXCEPT !.bytesSinceCommit = @ + pcmBytes]
  IN  IF ~UpstreamReady(s1)
      THEN [s1 EXCEPT !.queuedBase64 = Append(@, base64Chunk)]
      ELSE OaSend(s1, "input_audio_buffer.append", base64Chunk)

\* a faulty flush: the commit is sent before the pending queue is drained
Guard_flushIfReady_CommitFirst(s, force) ==
  IF ~UpstreamReady(s) THEN s
  ELSE IF ShouldCommit(s.bytesSinceCommit, force)
       THEN LET s1 == OaSend(s, "input_audio_buffer.commit", NoAudio)
                s2 == OaSend(s1, "response.create", NoAudio)
            IN  OaSendAll([s2 EXCEPT !.bytesSinceCommit = 0], s2.queuedBase64)
       ELSE OaSendAll(s, s.queuedBase64)

\* part_002 flushIfReady
Guard_flushIfReady(s, force) ==
  IF ~UpstreamReady(s) THEN s
  ELSE LET s1 == OaSendAll(s, s.queuedBase64)
       IN  IF ShouldCommit(s1.bytesSinceCommit, force)
           THEN LET s2 == OaSend(s1, "input_audio_buffer.commit", NoAudio)
                    s3 == OaSend(s2, "response.create", NoAudio)
                IN  [s3 EXCEPT !.bytesSinceCommit = 0]
           ELSE s1

\* part_002 inTrans.stdout.on("data")
Guard_onInData(s, pcm16, t) ==
  LET s1 == [s EXCEPT !.frameBuf = @ \o pcm16]
  IN  IF t - s1.lastFlushTs > APPEND_EVERY_MS
      THEN LET chunk == s1.frameBuf
               s2 == [s1 EXCEPT !.frameBuf = <<>>]
               s3 == IF Len(chunk) > 0
                     THEN [Guard_appendToOpenAI(s2, ToBase64(chunk))
                             EXCEPT !.appendTs = Append(@, t)]
                     ELSE s2
           IN  IF t - s3.lastFlushTs > COMMIT_EVERY_MS
               THEN [Guard_flushIfReady(s3, FALSE) EXCEPT !.lastFlushTs = t]
               ELSE s3
      ELSE s1

\* part_000 appendToOpenAI
Buf_appendToOpenAI(s, base64) ==
  IF ~UpstreamReady(s)
  THEN [s EXCEPT !.queuedBase64 = Append(@, base64), !.haveUncommitted = TRUE]
  ELSE [OaSend(s, "input_audio_buffer.append", base64)
          EXCEPT !.haveUncommitted = TRUE]

\* part_000 flushIfReady
Buf_flushIfReady(s) ==
  IF ~UpstreamReady(s) THEN s
  ELSE LET s1 == OaSendAll(s, s.queuedBase64)
       IN  IF s1.haveUncommitted
           THEN LET s2 == OaSend(s1, "input_audio_buffer.commit", NoAudio)
                    s3 == OaSend(s2, "response.create", NoAudio)
                IN  [s3 EXCEPT !.haveUncommitted = FALSE]
           ELSE s1

\* part_000 inTrans.stdout.on("data")
Buf_onInData(s, pcm16, t) ==
  LET s1 == [s EXCEPT !.frameBuf = @ \o pcm16]
  IN  IF t - s1.lastFlushTs > APPEND_EVERY_MS
      THEN LET chunk == s1.frameBuf
               s2 == [s1 EXCEPT !.frameBuf = <<>>]
               s3 == Buf_appendToOpenAI(s2, ToBase64(chunk))
           IN  IF t - s3.lastFlushTs > COMMIT_EVERY_MS
               THEN [Buf_flushIfReady(s3) EXCEPT !.lastFlushTs = t]
               ELSE s3
      ELSE s1

\* server.js inTrans.stdout.on("data"): every send is unguarded, and the
\* first one that throws ends the handler
Direct_onInData(s, pcm16, t) ==
  LET s1 == [s EXCEPT !.frameBuf = @ \o pcm16]
  IN  IF t - s1.lastFlushTs > APPEND_EVERY_MS
      THEN LET chunk == s1.frameBuf
               s2 == [s1 EXCEPT !.frameBuf = <<>>]
               s3 == OaSend(s2, "input_audio_buffer.append", ToBase64(chunk))
           IN  IF s3.threw THEN s3
               ELSE IF t - s3.lastFlushTs > COMMIT_EVERY_MS
               THEN LET s4 == OaSend(s3, "input_audio_buffer.commit", NoAudio)
                        s5 == OaSend(s4, "response.create", NoAudio)
                    IN  [s5 EXCEPT !.lastFlushTs = t]
               ELSE s3
      ELSE s1

\* the closure state after a handler returned s
SetInState(s) ==
  /\ oaReady' = s.oaReady
  /\ queuedBase64' = s.queuedBase64
  /\ bytesSinceCommit' = s.bytesSinceCommit
  /\ haveUncommitted' = s.haveUncommitted
  /\ oaSent' = s.oaSent
  /\ frameBuf' = s.frameBuf
  /\ appendTs' = s.appendTs
  /\ lastFlushTs' = s.lastFlushTs

onInData(s, pcm16, t) ==
  CASE variant = "CommitGuard" -> Guard_onInData(s, pcm16, t)
    [] variant = "Buffered"    -> Buf_onInData(s, pcm16, t)
    [] OTHER                   -> Direct_onInData(s, pcm16, t)

(***************************************************************************)
(* Upstream socket listeners of the transcoded variants, on the closure    *)
(* state s (s.rs is the readyState the listener sees).                     *)
(***************************************************************************)
\* part_002 oaWS.on("open")
Guard_onOpen(s) ==
  LET s1 == OaSend([s EXCEPT !.oaReady = TRUE], "session.update", NoAudio)
  IN  OaSend(s1, "response.create", NoAudio)

\* a faulty open handler: the pending queue is flushed before the session is
\* configured
Buf_onOpen_FlushFirst(s) ==
  LET s1 == Buf_flushIfReady([s EXCEPT !.oaReady = TRUE])
      s2 == OaSend(s1, "session.update", NoAudio)
  IN  OaSend(s2, "response.create", NoAudio)

\* part_000 oaWS.on("open")
Buf_onOpen(s) ==
  LET s1 == OaSend([s EXCEPT !.oaReady = TRUE], "session.update", NoAudio)
      s2 == Buf_flushIfReady(s1)
  IN  OaSend(s2, "response.create", NoAudio)

\* server.js oaWS.on("open")
Direct_onOpen(s) ==
  LET s1 == OaSend(s, "session.update", NoAudio)
  IN  OaSend(s1, "response.create", NoAudio)

onOpen(s) ==
  CASE variant = "CommitGuard" -> Guard_onOpen(s)
    [] variant = "Buffered"    -> Buf_onOpen(s)
    [] OTHER                   -> Direct_onOpen(s)

\* oaWS.on("close", () => { oaReady = false; queuedBase64 = []; ... })
onOaClose(s) ==
  CASE variant = "CommitGuard" ->
         [s EXCEPT !.oaReady = FALSE, !.queuedBase64 = <<>>,
                   !.bytesSinceCommit = 0]
    [] variant = "Buffered" ->
         [s EXCEPT !.oaReady = FALSE, !.queuedBase64 = <<>>,
                   !.haveUncommitted = FALSE]
    [] OTHER -> s

\* oaWS.on("error", () => { oaReady = false; })
onOaError(s) ==
  IF variant \in {"CommitGuard", "Buffered"}
  THEN [s EXCEPT !.oaReady = FALSE]
  ELSE s

\* a faulty relay guard: audio is relayed whether or not the stream
\* identifier is known
CanRelay_Always(sid) == TRUE

\* outTrans.stdout.on("data"): the guard on the stream identifier
CanRelay(sid) == sid # NoSid

(***************************************************************************)
(* Actions of the transcoded variants.                                     *)
(***************************************************************************)
\* twilioWS.on("message"), event "start"
TwStart(sid) ==
  /\ variant \in Transcoded /\ Running
  /\ twState \in {"OPEN", "CLOSING"}
  /\ streamSid' = sid
  /\ UNCHANGED <<variant, noiseVars, now, fault, sockVars, oaSent, twSent,
                 transVars, inVars, outPipe, bufVars, g711Vars, tonePending,
                 nFrames, nDeltas, ghostVars>>

\* twilioWS.on("message"), event "media": inTrans.stdin.write(mulaw8k)
TwMedia(ms) ==
  /\ variant \in Transcoded /\ Running
  /\ twState \in {"OPEN", "CLOSING"}
  /\ nFrames + nDeltas < MaxMessages
  /\ nFrames' = nFrames + 1
  /\ IF inTransEnded
     THEN ProcessExit("ERR_STREAM_WRITE_AFTER_END") /\ UNCHANGED inPipe
     ELSE /\ inPipe' = Append(inPipe, [id |-> nFrames + 1, ms |-> ms])
          /\ UNCHANGED <<fault, sockVars, transVars>>
  /\ UNCHANGED <<variant, noiseVars, now, streamSid, oaSent, twSent, outPipe,
                 frameBuf, lastFlushTs, appendTs, bufVars, g711Vars,
                 tonePending, nDeltas, ghostVars>>

\* twilioWS.on("message"), event "stop"
TwStop ==
  /\ variant \in Transcoded /\ Running
  /\ twState \in {"OPEN", "CLOSING"}
  /\ cleanup(oaState, twState)
  /\ UNCHANGED <<variant, noiseVars, now, fault, streamSid, oaSent, inVars,
                 outPipe, bufVars, g711Vars, tonePending, nFrames, nDeltas,
                 nOther, oaOpened>>

\* twilioWS.on("close", cleanup)
TwClose ==
  /\ variant \in Transcoded /\ Running
  /\ twState \in {"OPEN", "CLOSING"}
  /\ cleanup(oaState, "CLOSED")
  /\ UNCHANGED <<variant, noiseVars, now, fault, streamSid, oaSent, inVars,
                 outPipe, bufVars, g711Vars, tonePending, nFrames, nDeltas,
                 nOther, oaOpened>>

\* twilioWS.on("error", cleanup)
TwError ==
  /\ variant \in Transcoded /\ Running
  /\ twState = "OPEN"
  /\ cleanup(oaState, "CLOSING")
  /\ UNCHANGED <<variant, noiseVars, now, fault, streamSid, oaSent, inVars,
                 outPipe, bufVars, g711Vars, tonePending, nFrames, nDeltas,
                 nOther, oaOpened>>

\* inTrans.stdout.on("data"): ffmpeg delivers the first k frames in its pipe
InTransData(k) ==
  /\ variant \in Transcoded /\ Running
  /\ k \in 1..Len(inPipe)
  /\ LET s == onInData(InState, SubSeq(inPipe, 1, k), now)
     IN  /\ SetInState(s)
         /\ IF s.threw
            THEN ProcessExit("WS_NOT_OPEN")
            ELSE UNCHANGED <<fault, sockVars, transVars>>
  /\ inPipe' = SubSeq(inPipe, k + 1, Len(inPipe))
  /\ UNCHANGED <<variant, noiseVars, now, streamSid, twSent, outPipe, g711Vars,
                 tonePending, nFrames, nDeltas, ghostVars>>

\* oaWS.on("open")
OaOpen ==
  /\ variant \in Transcoded /\ Running
  /\ oaState = "CONNECTING"
  /\ oaState' = "OPEN"
  /\ oaOpened' = TRUE
  /\ SetInState(onOpen([InState EXCEPT !.rs = "OPEN"]))
  /\ tonePending' = (variant \in {"Buffered", "Direct"})
  /\ UNCHANGED <<variant, noiseVars, now, fault, streamSid, oaAborted, twState,
                 twSent, transVars, inPipe, outPipe, g711Vars, nFrames,
                 nDeltas, nOther, stopSeen>>

\* playTestTone: tone.stdout.on("data", pcm16 => outTrans.stdin.write(pcm16))
ToneData ==
  /\ variant \in Transcoded /\ Running
  /\ tonePending
  /\ tonePending' = FALSE
  /\ IF outTransEnded
     THEN ProcessExit("ERR_STREAM_WRITE_AFTER_END") /\ UNCHANGED outPipe
     ELSE /\ outPipe' = Append(outPipe, 0)
          /\ UNCHANGED <<fault, sockVars, transVars>>
  /\ UNCHANGED <<variant, noiseVars, now, streamSid, oaSent, twSent, inVars,
                 bufVars, g711Vars, nFrames, nDeltas, ghostVars>>

\* oaWS.on("message"), an audio delta: outTrans.stdin.write(pcm16)
OaDelta ==
  /\ variant \in Transcoded /\ Running
  /\ oaState \in {"OPEN", "CLOSING"} /\ ~oaAborted
  /\ nFrames + nDeltas < MaxMessages
  /\ nDeltas' = nDeltas + 1
  /\ IF outTransEnded
     THEN ProcessExit("ERR_STREAM_WRITE_AFTER_END") /\ UNCHANGED outPipe
     ELSE /\ outPipe' = Append(outPipe, nDeltas + 1)
          /\ UNCHANGED <<fault, sockVars, transVars>>
  /\ UNCHANGED <<variant, noiseVars, now, streamSid, oaSent, twSent, inVars,
                 bufVars, g711Vars, tonePending, nFrames, ghostVars>>

\* outTrans.stdout.on("data"): ffmpeg delivers the first k items in its pipe
OutTransData(k) ==
  /\ variant \in Transcoded /\ Running
  /\ k \in 1..Len(outPipe)
  /\ outPipe' = SubSeq(outPipe, k + 1, Len(outPipe))
  /\ IF CanRelay(streamSid)
     THEN twSent' = Append(twSent, TwMsg("media", streamSid,
                                         SubSeq(outPipe, 1, k), twState))
     ELSE UNCHANGED twSent
  /\ UNCHANGED <<variant, noiseVars, now, fault, streamSid, sockVars, oaSent,
                 transVars, inVars, bufVars, g711Vars, tonePending, nFrames,
                 nDeltas, ghostVars>>

\* the connection attempt fails, or the handshake was aborted by close():
\* ws emits 'error' (readyState CLOSING) and then 'close' (CLOSED)
OaConnectFail ==
  /\ variant \in Transcoded /\ Running
  /\ oaState = "CONNECTING" \/ (oaState = "CLOSING" /\ oaAborted)
  /\ SetInState(onOaClose(onOaError(InState)))
  /\ cleanup("CLOSED", twState)
  /\ UNCHANGED <<variant, noiseVars, now, fault, streamSid, inPipe, outPipe,
                 g711Vars, tonePending, nFrames, nDeltas, nOther, oaOpened>>

\* oaWS.on("error") on an open socket: readyState is CLOSING in the listeners
OaError ==
  /\ variant \in Transcoded /\ Running
  /\ oaState = "OPEN"
  /\ SetInState(onOaError(InState))
  /\ cleanup("CLOSING", twState)
  /\ UNCHANGED <<variant, noiseVars, now, fault, streamSid, inPipe, outPipe,
                 g711Vars, tonePending, nFrames, nDeltas, nOther, oaOpened>>

\* oaWS.on("close"): readyState is CLOSED in the listeners
OaClose ==
  /\ variant \in Transcoded /\ Running
  /\ oaState \in {"OPEN", "CLOSING"} /\ ~oaAborted
  /\ SetInState(onOaClose(InState))
  /\ cleanup("CLOSED", twState)
  /\ UNCHANGED <<variant, noiseVars, now, fault, streamSid, inPipe, outPipe,
                 g711Vars, tonePending, nFrames, nDeltas, nOther, oaOpened>>

\* kinds of upstream message the message handlers have no branch for
IgnoredKinds == {"error", "unknown", "unparseable"}

\* a faulty parse guard: a message that does not parse ends the session
onTwBadJson_Cleanup(oa, tw) == cleanup(oa, tw)

\* twilioWS.on("message"): try { m = JSON.parse(raw.toString()); }
\* catch { return; }
onTwBadJson(oa, tw) ==
  UNCHANGED <<sockVars, transVars, twSent, stopSeen>>

\* twilioWS.on("message") with a payload that is not JSON
TwMalformed ==
  /\ variant \in Transcoded /\ Running
  /\ twState \in {"OPEN", "CLOSING"}
  /\ nBadTw + nBadOa < MaxIgnored
  /\ nBadTw' = nBadTw + 1
  /\ onTwBadJson(oaState, twState)
  /\ UNCHANGED <<variant, nBadOa, now, fault, streamSid, oaSent, inVars,
                 outPipe, bufVars, g711Vars, tonePending, nFrames, nDeltas,
                 nOther, oaOpened>>

\* a faulty handler: an error event from the upstream ends the session
onOaIgnored_ErrorFatal(kind, oa, tw) ==
  IF kind = "error"
  THEN cleanup(oa, tw)
  ELSE UNCHANGED <<sockVars, transVars, twSent, stopSeen>>

\* oaWS.on("message") for a message that is binary or does not parse
\* (return), is of type "error" (console.error), or of a type no branch
\* tests for
onOaIgnored(kind, oa, tw) ==
  UNCHANGED <<sockVars, transVars, twSent, stopSeen>>

\* oaWS.on("message") with such a message
OaIgnored(kind) ==
  /\ variant \in Transcoded /\ Running
  /\ oaState \in {"OPEN", "CLOSING"} /\ ~oaAborted
  /\ nBadTw + nBadOa < MaxIgnored
  /\ nBadOa' = nBadOa + 1
  /\ onOaIgnored(kind, oaState, twState)
  /\ UNCHANGED <<variant, nBadTw, now, fault, streamSid, oaSent, inVars,
                 outPipe, bufVars, g711Vars, tonePending, nFrames, nDeltas,
                 nOther, oaOpened>>

\* the granularity of the clock in a session of variant v
StepMs(v) == IF v = "G711" THEN G711ClockStepMs ELSE ClockStepMs

\* time passes
Tick ==
  /\ Running
  /\ now < MaxTicks * StepMs(variant)
  /\ now' = now + StepMs(variant)
  /\ UNCHANGED <<variant, noiseVars, fault, streamSid, sockVars, oaSent,
                 twSent, transVars, inVars, outPipe, bufVars, g711Vars,
                 tonePending, nFrames, nDeltas, ghostVars>>

(***************************************************************************)
(* The g711 bridge (part_001:184-369): no transcoder, no pending queue.    *)
(***************************************************************************)
\* commitIfNeeded, on s = [rs, oaSent, bufferedFrames]
commitIfNeeded(s, force) ==
  IF s.rs # "OPEN" THEN s
  ELSE IF force \/ s.bufferedFrames >= G711_COMMIT_MS
  THEN [s EXCEPT !.oaSent = Append(@, OaMsg("input_audio_buffer.commit",
                                            NoAudio, s.rs)),
                 !.bufferedFrames = 0]
  ELSE s

\* scheduleCommit: arms the timer unless commitTimer is set (a cleared
\* Timeout object still is)
scheduleCommit(timer, t) ==
  IF timer.set THEN timer
  ELSE [set |-> TRUE, due |-> t + COMMIT_TIMER_MS, cleared |-> FALSE]

\* clearTimeout(commitTimer): the variable keeps the Timeout object
clearTimeout(timer) ==
  IF timer.set THEN [timer EXCEPT !.cleared = TRUE] ELSE timer

G711State == [rs |-> oaState, oaSent |-> oaSent,
              bufferedFrames |-> bufferedFrames]

\* the guard of every twilioWs.send in the openaiWs message handler
G711_CanRelay(tw, sid) == tw = "OPEN" /\ sid # NoSid

\* twilioWs.on("message"), event "start"
G711_TwStart(sid) ==
  /\ variant = "G711" /\ Running
  /\ twState \in {"OPEN", "CLOSING"}
  /\ streamSid' = sid
  /\ UNCHANGED <<variant, noiseVars, now, fault, sockVars, oaSent, twSent,
                 transVars, inVars, outPipe, bufVars, g711Vars, tonePending,
                 nFrames, nDeltas, ghostVars>>

\* twilioWs.on("message"), event "media"
G711_TwMedia ==
  /\ variant = "G711" /\ Running
  /\ twState \in {"OPEN", "CLOSING"}
  /\ nFrames < MaxG711Frames
  /\ nFrames' = nFrames + 1
  /\ lastMediaTs' = now
  /\ IF oaState = "OPEN"
     THEN LET payload == ToBase64(<<[id |-> nFrames + 1, ms |-> FRAME_MS]>>)
              s1 == [G711State EXCEPT
                       !.oaSent = Append(@, OaMsg("input_audio_buffer.append",
                                                  payload, oaState)),
                       !.bufferedFrames = @ + FRAME_MS]
              s2 == IF s1.bufferedFrames >= G711_COMMIT_MS
                    THEN commitIfNeeded(s1, TRUE)
                    ELSE s1
          IN  /\ oaSent' = s2.oaSent
              /\ bufferedFrames' = s2.bufferedFrames
              /\ commitTimer' = IF s1.bufferedFrames >= G711_COMMIT_MS
                                THEN commitTimer
                                ELSE scheduleCommit(commitTimer, now)
     ELSE UNCHANGED <<oaSent, bufferedFrames, commitTimer>>
  /\ UNCHANGED <<variant, noiseVars, now, fault, streamSid, sockVars, twSent,
                 transVars, inVars, outPipe, bufVars, tonePending, nDeltas,
                 ghostVars>>

\* the commitTimer callback
G711_TimerFire ==
  /\ variant = "G711" /\ Running
  /\ commitTimer.set /\ ~commitTimer.cleared
  /\ now >= commitTimer.due
  /\ LET s == commitIfNeeded(G711State, TRUE)
     IN  /\ oaSent' = s.oaSent
         /\ bufferedFrames' = s.bufferedFrames
  /\ commitTimer' = NoTimer
  /\ UNCHANGED <<variant, noiseVars, now, fault, streamSid, sockVars, twSent,
                 transVars, inVars, outPipe, bufVars, lastMediaTs, tonePending,
                 nFrames, nDeltas, ghostVars>>

\* twilioWs.on("message"), event "stop"
G711_TwStop ==
  /\ variant = "G711" /\ Running
  /\ twState \in {"OPEN", "CLOSING"}
  /\ LET s == commitIfNeeded(G711State, TRUE)
     IN  /\ bufferedFrames' = s.bufferedFrames
         /\ IF oaState = "OPEN"
            THEN /\ oaSent' = Append(s.oaSent,
                                     OaMsg("response.cancel", NoAudio, oaState))
                 /\ oaState' = WsClose(oaState)
            ELSE /\ oaSent' = s.oaSent
                 /\ UNCHANGED oaState
  /\ commitTimer' = clearTimeout(commitTimer)
  /\ twState' = WsClose(twState)
  /\ stopSeen' = TRUE
  /\ UNCHANGED <<variant, noiseVars, now, fault, streamSid, oaAborted, twSent,
                 transVars, inVars, outPipe, bufVars, lastMediaTs, tonePending,
                 nFrames, nDeltas, nOther, oaOpened>>

\* twilioWs.on("close")
G711_TwClose ==
  /\ variant = "G711" /\ Running
  /\ twState \in {"OPEN", "CLOSING"}
  /\ twState' = "CLOSED"
  /\ commitTimer' = clearTimeout(commitTimer)
  /\ oaState' = IF oaState = "OPEN" THEN WsClose(oaState) ELSE oaState
  /\ stopSeen' = TRUE
  /\ UNCHANGED <<variant, noiseVars, now, fault, streamSid, oaAborted, oaSent,
                 twSent, transVars, inVars, outPipe, bufVars, bufferedFrames,
                 lastMediaTs, tonePending, nFrames, nDeltas, nOther, oaOpened>>

\* twilioWs.on("error"): readyState is CLOSING in the listener
G711_TwError ==
  /\ variant = "G711" /\ Running
  /\ twState = "OPEN"
  /\ twState' = "CLOSING"
  /\ commitTimer' = clearTimeout(commitTimer)
  /\ oaState' = IF oaState = "OPEN" THEN WsClose(oaState) ELSE oaState
  /\ stopSeen' = TRUE
  /\ UNCHANGED <<variant, noiseVars, now, fault, streamSid, oaAborted, oaSent,
                 twSent, transVars, inVars, outPipe, bufVars, bufferedFrames,
                 lastMediaTs, tonePending, nFrames, nDeltas, nOther, oaOpened>>

\* openaiWs.on("open")
G711_OaOpen ==
  /\ variant = "G711" /\ Running
  /\ oaState = "CONNECTING"
  /\ oaState' = "OPEN"
  /\ oaOpened' = TRUE
  /\ oaSent' = Append(oaSent, OaMsg("session.update", NoAudio, "OPEN"))
  /\ UNCHANGED <<variant, noiseVars, now, fault, streamSid, oaAborted, twState,
                 twSent, transVars, inVars, outPipe, bufVars, g711Vars,
                 tonePending, nFrames, nDeltas, nOther, stopSeen>>

\* openaiWs.on("message"), an audio delta
G711_OaDelta ==
  /\ variant = "G711" /\ Running
  /\ oaState \in {"OPEN", "CLOSING"}
  /\ nDeltas + nOther < MaxG711Events
  /\ nDeltas' = nDeltas + 1
  /\ IF G711_CanRelay(twState, streamSid)
     THEN twSent' = Append(twSent, TwMsg("media", streamSid,
                                         <<nDeltas + 1>>, twState))
     ELSE UNCHANGED twSent
  /\ UNCHANGED <<variant, noiseVars, now, fault, streamSid, sockVars, oaSent,
                 transVars, inVars, outPipe, bufVars, g711Vars, tonePending,
                 nFrames, ghostVars>>

\* openaiWs.on("message"), response.completed
G711_OaCompleted ==
  /\ variant = "G711" /\ Running
  /\ oaState \in {"OPEN", "CLOSING"}
  /\ nDeltas + nOther < MaxG711Events
  /\ nOther' = nOther + 1
  /\ IF G711_CanRelay(twState, streamSid)
     THEN twSent' = Append(twSent, TwMsg("mark", streamSid, <<>>, twState))
     ELSE UNCHANGED twSent
  /\ UNCHANGED <<variant, noiseVars, now, fault, streamSid, sockVars, oaSent,
                 transVars, inVars, outPipe, bufVars, g711Vars, tonePending,
                 nFrames, nDeltas, oaOpened, stopSeen>>

\* openaiWs.on("close"): tells Twilio to stop, closes nothing
G711_onOaClose(sent, tw) ==
  IF tw = "OPEN" THEN Append(sent, TwMsg("stop", NoSid, <<>>, tw)) ELSE sent

\* openaiWs.on("close") after the socket was open
G711_OaClose ==
  /\ variant = "G711" /\ Running
  /\ oaState \in {"OPEN", "CLOSING"}
  /\ oaState' = "CLOSED"
  /\ twSent' = G711_onOaClose(twSent, twState)
  /\ UNCHANGED <<variant, noiseVars, now, fault, streamSid, oaAborted, twState,
                 oaSent, transVars, inVars, outPipe, bufVars, g711Vars,
                 tonePending, nFrames, nDeltas, ghostVars>>

\* the connection attempt fails: 'error' (logged) and then 'close'
G711_OaConnectFail ==
  /\ variant = "G711" /\ Running
  /\ oaState = "CONNECTING"
  /\ oaState' = "CLOSED"
  /\ twSent' = G711_onOaClose(twSent, twState)
  /\ UNCHANGED <<variant, noiseVars, now, fault, streamSid, oaAborted, twState,
                 oaSent, transVars, inVars, outPipe, bufVars, g711Vars,
                 tonePending, nFrames, nDeltas, ghostVars>>

\* openaiWs.on("error") on an open socket: logged only
G711_OaError ==
  /\ variant = "G711" /\ Running
  /\ oaState = "OPEN"
  /\ oaState' = "CLOSING"
  /\ UNCHANGED <<variant, noiseVars, now, fault, streamSid, oaAborted, twState,
                 oaSent, twSent, transVars, inVars, outPipe, bufVars, g711Vars,
                 tonePending, nFrames, nDeltas, ghostVars>>

\* twilioWs.on("message") with a payload that is not JSON: catch { return; }
G711_TwMalformed ==
  /\ variant = "G711" /\ Running
  /\ twState \in {"OPEN", "CLOSING"}
  /\ nBadTw + nBadOa < MaxIgnored
  /\ nBadTw' = nBadTw + 1
  /\ UNCHANGED <<variant, nBadOa, now, fault, streamSid, sockVars, oaSent,
                 twSent, transVars, inVars, outPipe, bufVars, g711Vars,
                 tonePending, nFrames, nDeltas, ghostVars>>

\* openaiWs.on("message") for a message that does not parse (return) or
\* whose type is neither an audio delta nor response.completed
G711_OaIgnored(kind) ==
  /\ variant = "G711" /\ Running
  /\ oaState \in {"OPEN", "CLOSING"}
  /\ nBadTw + nBadOa < MaxIgnored
  /\ nBadOa' = nBadOa + 1
  /\ UNCHANGED <<variant, nBadTw, now, fault, streamSid, sockVars, oaSent,
                 twSent, transVars, inVars, outPipe, bufVars, g711Vars,
                 tonePending, nFrames, nDeltas, ghostVars>>

(***************************************************************************)
(* Specifications.                                                         *)
(***************************************************************************)
\* the listeners part_002, part_000 and server.js all register
NextCommon ==
  \/ \E sid \in StreamSids : TwStart(sid)
  \/ \E ms \in FrameDurations(variant) : TwMedia(ms)
  \/ TwStop
  \/ TwClose
  \/ TwError
  \/ \E k \in 1..MaxMessages : InTransData(k)
  \/ OaOpen
  \/ OaDelta
  \/ \E k \in 1..(MaxMessages + 1) : OutTransData(k)
  \/ OaConnectFail
  \/ OaError
  \/ OaClose
  \/ Tick

NextTranscoded == NextCommon \/ ToneData

NextG711 ==
  \/ \E sid \in StreamSids : G711_TwStart(sid)
  \/ G711_TwMedia
  \/ G711_TimerFire
  \/ G711_TwStop
  \/ G711_TwClose
  \/ G711_TwError
  \/ G711_OaOpen
  \/ G711_OaDelta
  \/ G711_OaCompleted
  \/ G711_OaClose
  \/ G711_OaConnectFail
  \/ G711_OaError
  \/ Tick

\* messages the handlers have no use for
NextIgnored ==
  \/ TwMalformed
  \/ \E kind \in IgnoredKinds : OaIgnored(kind)
  \/ G711_TwMalformed
  \/ \E kind \in IgnoredKinds : G711_OaIgnored(kind)

\* peers that send only messages the handlers act on
Next == NextTranscoded \/ NextG711

\* every variant
Spec == Init /\ [][Next]_vars

\* part_002 alone
SpecCommitGuard == InitFor("CommitGuard") /\ [][NextCommon]_vars

\* part_002, part_000 and server.js
InitTranscoded == \E v \in Transcoded : InitFor(v)
SpecTranscoded == InitTranscoded /\ [][NextTranscoded]_vars

\* part_001 alone
SpecG711 == InitFor("G711") /\ [][NextG711]_vars

\* What the runtime guarantees to happen: a socket that is CLOSING gets its
\* close event (ws arms a close timer in close(), aborts a handshake that is
\* still connecting, and destroys the socket after an error).  Nothing is
\* assumed of the peers: they may stay silent and keep their connection open
\* for ever.
FairTranscoded ==
  /\ WF_vars(oaState = "CLOSING" /\ (OaClose \/ OaConnectFail))
  /\ WF_vars(twState = "CLOSING" /\ TwClose)

FairSpecCommitGuard == SpecCommitGuard /\ FairTranscoded

\* the same for part_001; there a connection attempt also ends (it opens or
\* it fails)
FairG711 ==
  /\ WF_vars(G711_OaOpen \/ G711_OaConnectFail)
  /\ WF_vars(oaState = "CLOSING" /\ G711_OaClose)
  /\ WF_vars(twState = "CLOSING" /\ G711_TwClose)

FairSpecG711 == SpecG711 /\ FairG711

\* part_002 and part_001 with peers that also send malformed messages,
\* error events and events of unknown type
InitIgnored == InitFor("CommitGuard") \/ InitFor("G711")
SpecIgnored ==
  InitIgnored /\ [][NextCommon \/ NextG711 \/ NextIgnored]_vars

(***************************************************************************)
(* What was put on the upstream and downstream connections.                *)
(***************************************************************************)
IsAppend(m) == m.type = "input_audio_buffer.append"
IsCommit(m) == m.type = "input_audio_buffer.commit"

CommitIdx == {i \in DOMAIN oaSent : IsCommit(oaSent[i])}

\* index of the last commit before position i, 0 if there is none
PrevCommit(i) ==
  LET before == {j \in CommitIdx : j < i}
  IN  IF before = {} THEN 0
      ELSE CHOOSE j \in before : \A k \in before : k <= j

RECURSIVE AppendedMs(_, _)
\* milliseconds of audio in the appends at positions lo+1 .. hi-1 of oaSent
AppendedMs(lo, hi) ==
  IF hi - lo <= 1 THEN 0
  ELSE (IF IsAppend(oaSent[hi - 1])
        THEN SumMs(FromBase64(oaSent[hi - 1].audio)) ELSE 0)
       + AppendedMs(lo, hi - 1)

\* PCM16 bytes in the appends at positions lo+1 .. hi-1 of oaSent
AppendedBytes(lo, hi) == PCM_BYTES_PER_MS * AppendedMs(lo, hi)

(***************************************************************************)
(* C1.  In the commit-guard bridge (part_002) an input_audio_buffer.commit *)
(* is sent upstream only when at least MIN_COMMIT_BYTES (120 ms of PCM16)  *)
(* were appended since the previous commit, or since the session began.    *)
(***************************************************************************)
C1_CommitCoversMinimum ==
  variant = "CommitGuard" =>
    \A i \in CommitIdx :
      AppendedBytes(PrevCommit(i), i) >= MIN_COMMIT_BYTES

\* a second commit was sent: the window since the previous commit is counted
C1_Witness ==
  /\ variant = "CommitGuard"
  /\ Cardinality(CommitIdx) >= 2

(***************************************************************************)
(* C2.  In the g711 bridge (part_001) every input_audio_buffer.commit,     *)
(* whether triggered by a media frame, by the commit timer or by the stop  *)
(* event, covers at least 100 ms of audio appended since the previous      *)
(* commit.                                                                 *)
(***************************************************************************)
C2_G711CommitCoversMinimum ==
  variant = "G711" =>
    \A i \in CommitIdx : AppendedMs(PrevCommit(i), i) >= G711_COMMIT_MS

(***************************************************************************)
(* C3.  In every variant no media frame is sent downstream while the       *)
(* stream identifier is unknown.                                           *)
(***************************************************************************)
MediaIdx == {i \in DOMAIN twSent : twSent[i].event = "media"}

RECURSIVE RelayedFrom(_)
\* the audio items of the media messages from position i of twSent on
RelayedFrom(i) ==
  IF i > Len(twSent) THEN <<>>
  ELSE (IF twSent[i].event = "media" THEN twSent[i].payload ELSE <<>>)
       \o RelayedFrom(i + 1)

\* the upstream deltas among the items (0 is the test tone)
DeltasOf(items) == SelectSeq(items, LAMBDA x : x # 0)

C3_NoMediaBeforeStreamSid ==
  \A i \in MediaIdx : twSent[i].streamSid # NoSid

\* audio was relayed downstream although an earlier delta found the stream
\* identifier unknown
C3_Witness ==
  /\ Running
  /\ MediaIdx # {}
  /\ nDeltas > Len(DeltasOf(RelayedFrom(1))) + Len(DeltasOf(outPipe))

(***************************************************************************)
(* C4.  An upstream audio delta that arrives while the stream identifier   *)
(* is unknown is held, not dropped: once the start event has arrived,      *)
(* every delta received so far was sent downstream with the stream         *)
(* identifier, in arrival order, or is still held for sending.             *)
(***************************************************************************)
C4_DeltasHeldNotDropped ==
  (Running /\ streamSid # NoSid /\ twState = "OPEN") =>
    /\ DeltasOf(RelayedFrom(1)) \o DeltasOf(outPipe) = [i \in 1..nDeltas |-> i]
    /\ \A i \in MediaIdx : twSent[i].streamSid = streamSid

(***************************************************************************)
(* C5.  In the buffered bridges (part_002, part_000) the appends sent      *)
(* upstream carry the transcoded chunks in arrival order: a chunk queued   *)
(* before the upstream connection opened is sent before any later chunk.   *)
(***************************************************************************)
RECURSIVE AppendedFrom(_)
\* the frames of the appends from position i of oaSent on
AppendedFrom(i) ==
  IF i > Len(oaSent) THEN <<>>
  ELSE (IF IsAppend(oaSent[i]) THEN FromBase64(oaSent[i].audio) ELSE <<>>)
       \o AppendedFrom(i + 1)

InArrivalOrder(frames) ==
  \A i, j \in DOMAIN frames : i < j => frames[i].id < frames[j].id

C5_AppendsInArrivalOrder ==
  variant \in {"CommitGuard", "Buffered"} => InArrivalOrder(AppendedFrom(1))

(***************************************************************************)
(* C6.  Session cleanup is idempotent: once cleanup has run, a step that   *)
(* runs it again (a stop message, or a close/error event of either socket) *)
(* leaves both transcoder inputs ended, moves no socket other than the one *)
(* whose event it is, never takes a socket out of CLOSING/CLOSED or back   *)
(* from CLOSED, and sends nothing on either connection.                    *)
(***************************************************************************)
CleanupRan == Running /\ inTransEnded /\ outTransEnded

C6_CleanupIdempotent ==
  [][ (CleanupRan /\ (TwStop \/ TwClose \/ TwError
                      \/ OaConnectFail \/ OaError \/ OaClose)) =>
        /\ inTransEnded' /\ outTransEnded'
        /\ oaSent' = oaSent /\ twSent' = twSent
        /\ oaState' \in {"CLOSING", "CLOSED"}
        /\ twState' \in {"CLOSING", "CLOSED"}
        /\ (oaState = "CLOSED" => oaState' = "CLOSED")
        /\ (twState = "CLOSED" => twState' = "CLOSED")
        /\ (TwStop => UNCHANGED <<oaState, twState>>)
        /\ ((TwClose \/ TwError) => UNCHANGED oaState)
        /\ ((OaConnectFail \/ OaError \/ OaClose) => UNCHANGED twState) ]_vars

\* both sockets delivered their close event, so cleanup ran more than once
C6_Witness ==
  /\ variant \in Transcoded
  /\ CleanupRan
  /\ oaState = "CLOSED" /\ twState = "CLOSED"

(***************************************************************************)
(* C7.  In the commit-guard bridge, once a downstream stop, close or error *)
(* or an upstream close or error has been handled, whatever state the      *)
(* other leg is in, the session eventually has both connections closed and *)
(* both transcoder inputs ended.                                           *)
(***************************************************************************)
Terminated ==
  /\ oaState = "CLOSED" /\ twState = "CLOSED"
  /\ inTransEnded /\ outTransEnded

C7_TerminationAfterStop ==
  (variant = "CommitGuard" /\ stopSeen) ~> Terminated

\* the handlers themselves brought the session down, the upstream handshake
\* having been aborted while it was still connecting
C7_Witness ==
  /\ variant = "CommitGuard" /\ Running /\ stopSeen
  /\ oaAborted /\ ~oaOpened
  /\ Terminated

(***************************************************************************)
(* C8.  In the g711 bridge, when the upstream connection attempt fails     *)
(* (the socket closes without ever having opened), the downstream          *)
(* connection is eventually closed.                                        *)
(***************************************************************************)
C8_ConnectFailClosesDownstream ==
  (variant = "G711" /\ oaState = "CLOSED" /\ ~oaOpened) ~> (twState = "CLOSED")

(***************************************************************************)
(* C9.  In the g711 bridge, once the downstream leg has delivered stop, or *)
(* has closed or failed, the upstream connection is eventually closed,     *)
(* whether it was connecting or open at that moment.                       *)
(***************************************************************************)
C9_UpstreamClosedAfterStop ==
  (variant = "G711" /\ stopSeen) ~> (oaState = "CLOSED")

(***************************************************************************)
(* C10.  In every variant, each operation sent upstream is sent while the  *)
(* upstream socket is OPEN: not while it is connecting, and not after it   *)
(* left the open state.                                                    *)
(***************************************************************************)
C10_SendsOnlyWhileOpen ==
  \A i \in DOMAIN oaSent : oaSent[i].rs = "OPEN"

(***************************************************************************)
(* C11.  Scenario A in the g711 bridge: with the upstream connection open, *)
(* downstream sends start, five 20 ms media frames and stop.  No           *)
(* input_audio_buffer.commit is sent before the stop is handled, and       *)
(* exactly one commit is sent in all, by the stop handler.                 *)
(***************************************************************************)
AppendIdx == {i \in DOMAIN oaSent : IsAppend(oaSent[i])}
CancelIdx == {i \in DOMAIN oaSent : oaSent[i].type = "response.cancel"}

\* all five frames were appended upstream and the stop handler found the
\* upstream socket open (it alone sends response.cancel)
ScenarioA ==
  /\ variant = "G711" /\ streamSid # NoSid
  /\ nFrames = 5 /\ Cardinality(AppendIdx) = 5
  /\ CancelIdx # {}

C11_ScenarioAOneCommitAtStop ==
  ScenarioA =>
    /\ Cardinality(CommitIdx) = 1
    /\ \A c \in CommitIdx : \A a \in AppendIdx : a < c

(***************************************************************************)
(* C12.  In the commit-guard bridge, when the session stops (downstream    *)
(* stop, close or error) while the upstream connection is open and the     *)
(* commit window is non-zero, the stopping step sends an                   *)
(* input_audio_buffer.commit followed by a response.create upstream as it  *)
(* closes the upstream connection.                                         *)
(***************************************************************************)
EndsWithCommitAndCreate(sent) ==
  /\ Len(sent) >= 2
  /\ sent[Len(sent) - 1].type = "input_audio_buffer.commit"
  /\ sent[Len(sent)].type = "response.create"

C12_ForcedFlushOnStop ==
  [][ (/\ variant = "CommitGuard" /\ Running
       /\ oaState = "OPEN" /\ bytesSinceCommit > 0
       /\ (TwStop \/ TwClose \/ TwError)) =>
        /\ Len(oaSent') >= Len(oaSent) + 2
        /\ EndsWithCommitAndCreate(oaSent') ]_vars

(***************************************************************************)
(* C13.  No downstream audio is lost on the inbound path (part_002 and     *)
(* part_001): when a session whose upstream connection opened has ended,   *)
(* and the transcoder has delivered all its output, the payloads of the    *)
(* input_audio_buffer.append operations sent upstream, concatenated, are   *)
(* all the media frames received, in order.                                *)
(***************************************************************************)
SessionEnded ==
  /\ Running /\ oaState = "CLOSED" /\ twState = "CLOSED"
  /\ inPipe = <<>>

FrameIds(frames) == [i \in DOMAIN frames |-> frames[i].id]

C13_InboundLossless ==
  (variant \in {"CommitGuard", "G711"} /\ SessionEnded /\ oaOpened) =>
    FrameIds(AppendedFrom(1)) = [i \in 1..nFrames |-> i]

(***************************************************************************)
(* C14.  Scenario D in the commit-guard bridge: transcoded audio that      *)
(* arrived within 190 ms of the last flush timestamp, followed by a 300 ms *)
(* gap without audio, has been appended (sent or queued) by the end of the *)
(* gap: no chunk is still held in frameBuf 490 ms after the last flush     *)
(* timestamp.                                                              *)
(***************************************************************************)
C14_GapFlushesBurst ==
  (variant = "CommitGuard" /\ Running /\ frameBuf # <<>>) =>
    now - lastFlushTs < 190 + 300

(***************************************************************************)
(* C15.  On each upstream connection session.update is sent exactly once,  *)
(* when the connection opens, and it is the first operation sent upstream: *)
(* no append, commit or response.create precedes it.                       *)
(***************************************************************************)
SessionUpdateIdx ==
  {i \in DOMAIN oaSent : oaSent[i].type = "session.update"}

C15_SessionUpdateOnceAndFirst ==
  /\ Cardinality(SessionUpdateIdx) = (IF oaOpened THEN 1 ELSE 0)
  /\ oaOpened => SessionUpdateIdx = {1}

\* audio queued while the socket was connecting goes out right after the
\* configuration
C15_Witness ==
  /\ variant = "Buffered" /\ oaOpened
  /\ SessionUpdateIdx = {1}
  /\ Len(oaSent) >= 2 /\ IsAppend(oaSent[2])

(***************************************************************************)
(* C16.  In the g711 bridge every message the bridge sends on the          *)
(* downstream connection, of any event kind, carries the session's known   *)
(* (non-null) stream identifier.                                           *)
(***************************************************************************)
C16_G711DownstreamCarriesSid ==
  variant = "G711" =>
    \A i \in DOMAIN twSent : twSent[i].streamSid # NoSid

(***************************************************************************)
(* C17.  In the commit-guard bridge, in every state reached after the      *)
(* upstream connection has closed or failed, the pending queue is empty    *)
(* and the commit window is zero, also when transcoded audio arrives after *)
(* the disconnect.                                                         *)
(***************************************************************************)
C17_ResetAfterDisconnect ==
  (variant = "CommitGuard" /\ Running /\ oaState = "CLOSED") =>
    (queuedBase64 = <<>> /\ bytesSinceCommit = 0)

(***************************************************************************)
(* C18.  In the g711 bridge, whenever the session begins stopping          *)
(* (downstream stop, close or error) while the upstream connection is      *)
(* open, the stopping step sends response.cancel upstream as it closes the *)
(* upstream connection.                                                    *)
(***************************************************************************)
C18_CancelBeforeClose ==
  [][ (/\ variant = "G711" /\ Running /\ oaState = "OPEN"
       /\ (G711_TwStop \/ G711_TwClose \/ G711_TwError)) =>
        /\ Len(oaSent') > Len(oaSent)
        /\ oaSent'[Len(oaSent')].type = "response.cancel" ]_vars

(***************************************************************************)
(* C19.  A downstream message that fails to parse as JSON is dropped: the  *)
(* step that handles it changes no session state (stream identifier,       *)
(* buffers, queue, commit window, timers), sends nothing on either         *)
(* connection and closes neither connection.                               *)
(***************************************************************************)
SessionState ==
  <<fault, streamSid, oaState, oaAborted, twState, oaSent, twSent,
    inTransEnded, outTransEnded, inPipe, outPipe, frameBuf, lastFlushTs,
    oaReady, queuedBase64, bytesSinceCommit, haveUncommitted, bufferedFrames,
    commitTimer>>

C19_MalformedDownstreamDropped ==
  [][ (TwMalformed \/ G711_TwMalformed) => UNCHANGED SessionState ]_vars

\* a malformed message was handled and the call goes on, with audio pending
C19_Witness ==
  /\ nBadTw >= 1 /\ Running
  /\ oaState = "OPEN" /\ twState = "OPEN" /\ streamSid # NoSid
  /\ ~inTransEnded
  /\ (bytesSinceCommit > 0 \/ bufferedFrames > 0)

(***************************************************************************)
(* C20.  An upstream message that is an application-level error event, of  *)
(* an unrecognised type, or unparseable leaves the session running and     *)
(* unchanged: no connection is closed, no transcoder is ended and nothing  *)
(* is sent on either connection, however many such messages arrive.        *)
(***************************************************************************)
C20_IgnoredUpstreamChangesNothing ==
  [][ (\E kind \in IgnoredKinds : OaIgnored(kind) \/ G711_OaIgnored(kind))
        => (Running' /\ UNCHANGED SessionState) ]_vars

\* two such messages arrived and both connections are still open
C20_Witness ==
  /\ nBadOa >= 2 /\ Running
  /\ oaState = "OPEN" /\ twState = "OPEN"
  /\ ~inTransEnded /\ ~outTransEnded

(***************************************************************************)
(* C21.  In the buffered bridges the pending queue is bounded: its length  *)
(* stays under a fixed cap however many chunks arrive while the upstream   *)
(* connection is not ready.  Checked for a cap one below the number of     *)
(* chunks a session of the model can receive: with a cap in force the      *)
(* queue could never hold every chunk that arrived.                        *)
(***************************************************************************)
C21_PendingQueueBounded ==
  variant \in {"CommitGuard", "Buffered"} =>
    Len(queuedBase64) < MaxMessages

(***************************************************************************)
(* C22.  In the commit-guard bridge, after cleanup has ended a             *)
(* transcoder's input no later event writes to that transcoder: neither a  *)
(* downstream media message that arrives while the downstream socket is    *)
(* closing, nor an upstream audio delta that arrives while the upstream    *)
(* socket is closing.  A write to an ended input is what raises            *)
(* ERR_STREAM_WRITE_AFTER_END.                                             *)
(***************************************************************************)
C22_NoWriteAfterEnd ==
  variant = "CommitGuard" => fault # "ERR_STREAM_WRITE_AFTER_END"

(***************************************************************************)
(* C23.  In the commit-guard bridge appends follow a ~200 ms cadence: any  *)
(* two consecutive appends made by the inbound data handler (sent or       *)
(* queued) are more than 200 ms apart.                                     *)
(***************************************************************************)
C23_AppendCadence ==
  variant = "CommitGuard" =>
    \A i \in 1..(Len(appendTs) - 1) :
      appendTs[i + 1] - appendTs[i] > APPEND_EVERY_MS

(***************************************************************************)
(* C24.  In the g711 bridge the timer-driven commit fires only after       *)
(* 250 ms of inactivity: when the commit timer fires, no media frame has   *)
(* been received from downstream during the preceding 250 ms.              *)
(***************************************************************************)
C24_TimerFiresAfterInactivity ==
  [][ G711_TimerFire => now - lastMediaTs >= COMMIT_TIMER_MS ]_vars

(***************************************************************************)
(* C25.  In the buffered bridges (part_002 and part_000) a commit is       *)
(* ordered after every append it covers: when a step sends                 *)
(* input_audio_buffer.commit, the pending queue is empty and every chunk   *)
(* handed to appendToOpenAI so far has been sent upstream as an            *)
(* input_audio_buffer.append ahead of that commit.                         *)
(***************************************************************************)
CommitsIn(sent) == {i \in DOMAIN sent : IsCommit(sent[i])}
AppendsIn(sent) == {i \in DOMAIN sent : IsAppend(sent[i])}

\* ids of the frames in the append payloads of sent
AppendedIds(sent) ==
  UNION {{FromBase64(sent[i].audio)[j].id :
            j \in DOMAIN FromBase64(sent[i].audio)} : i \in AppendsIn(sent)}

\* ids of the frames still in the transcoder or in the handler's buffer
HeldIds(pipe, buf) ==
  {pipe[j].id : j \in DOMAIN pipe} \cup {buf[j].id : j \in DOMAIN buf}

C25_CommitAfterCoveredAppends ==
  [][ (/\ variant \in {"CommitGuard", "Buffered"}
       /\ CommitsIn(oaSent') # CommitsIn(oaSent)) =>
        /\ queuedBase64' = <<>>
        /\ AppendedIds(oaSent') = (1..nFrames') \ HeldIds(inPipe', frameBuf')
        /\ \E c \in CommitsIn(oaSent') :
             \A a \in AppendsIn(oaSent') : a < c ]_vars

\* a commit was sent by a flush that first drained a queued chunk, after a
\* later chunk had gone out live
C25_Witness ==
  /\ variant = "CommitGuard" /\ Running
  /\ CommitIdx # {}
  /\ ~InArrivalOrder(AppendedFrom(1))

(***************************************************************************)
(* C26.  Every input_audio_buffer.commit sent upstream is immediately      *)
(* followed by a response.create on the same connection, with no other     *)
(* upstream operation between them; the commit window is reset only after  *)
(* both were sent, so no state between handlers shows a commit without its *)
(* response.create.                                                        *)
(***************************************************************************)
C26_CommitThenResponseCreate ==
  \A i \in CommitIdx :
    /\ i < Len(oaSent)
    /\ oaSent[i + 1].type = "response.create"

=============================================================================
